---- MODULE Spec2Model ----
(***************************************************************************)
(* rci: deployment of certificate pairs to remote appliances.              *)
(*                                                                         *)
(* The module follows one run of main(): load_config (deserialisation of  *)
(* the document, protocol selection per pfSense target, resolution of the  *)
(* certificate references against the global pool), the pre-flight loop,   *)
(* and the update loop with the SSH driver (ssh_connect, channel set-up,   *)
(* script transfer, drain of the channel messages).                        *)
(*                                                                         *)
(* Encodings.  Option<T> is a sequence of length <= 1 (None == <<>>).      *)
(* Result<T> is a record with a field ok.  A string built by format! is    *)
(* kept as the record of its parts (message, interpolated name, ...); the  *)
(* back-quotes of the source messages are left out.                        *)
(* An Rc<CertificatePair> is the address of its allocation, a number.      *)
(* Calls into libraries (file system, webpki, russh) return any of the     *)
(* outcomes their signatures allow.                                        *)
(***************************************************************************)
EXTENDS Integers, Sequences, FiniteSets, TLC

\* ------------------------------------------------------------------ bounds
MaxTargets == 2      \* entries of the pfsense table of the document
MaxStatus  == 1      \* exit statuses range over 0..MaxStatus
NumKeys    == 2      \* distinct server public keys 1..NumKeys

DefaultSshPort == 22

None == <<>>
Some(x) == <<x>>

CertNames   == <<"default", "alt">>          \* names a certs table may hold
NameSet     == {CertNames[k] : k \in 1..Len(CertNames)}
NameIndex(n) == CHOOSE k \in 1..Len(CertNames) : CertNames[k] = n
Schemes     == {"http", "https", "ssh", "ftp"}
Keys        == 1..NumKeys
Statuses    == 0..MaxStatus
RefIds      == {"refid-a", "refid-b"}
Ports       == {None, Some(2222)}
Hosts       == {None, Some("fw")}
Usernames   == {"", "admin"}

\* ------------------------------------------------------------------ values
\* enum HostKey
HostKeyIgnore == [tag |-> "Ignore", key |-> 0]
HostKeyPublicKey(k) == [tag |-> "PublicKey", key |-> k]
HostKeys == {HostKeyIgnore} \cup {HostKeyPublicKey(k) : k \in Keys}

\* struct ssh::Config, as deserialised (key material loaded, host key parsed)
SshConfigs == [private_key : {"client-key"}, host_key : HostKeys]

\* enum CertificateRef; an inline pair is the Rc allocated while it is read
CertRefNamed(n) == [tag |-> "Named", name |-> n, rc |-> 0]
CertRefCertificate(rc) == [tag |-> "Certificate", name |-> "", rc |-> rc]

\* Rc::new: the address of a fresh allocation.  Inline pairs are allocated while
\* target i is deserialised, pool entries when the pool is collected.
RcInline(i) == i
RcPool(n) == MaxTargets + 1 + NameIndex(n)

Urls == [scheme : Schemes, username : Usernames, host : Hosts, port : Ports]

\* pfsense::RawConfig of target i
RawConfigs(i) ==
    [certificate : {CertRefNamed(n) : n \in NameSet} \cup {CertRefCertificate(RcInline(i))},
     url         : Urls,
     ssh_config  : {None} \cup {Some(c) : c \in SshConfigs},
     http_config : {None, Some("http-config")},
     refid       : RefIds]

\* errors: the message, the name and the code it interpolates, the target it is
\* attached to (0: none) and the context strings wrapped around it
Error(msg, name, code) == [msg |-> msg, name |-> name, code |-> code, target |-> 0, ctx |-> <<>>]
NoError == Error("", "", 0)
WithContext(e, c) == [e EXCEPT !.ctx = Append(@, c)]

Ok(v)    == [ok |-> TRUE, val |-> v, panic |-> FALSE, err |-> NoError]
Err(e)   == [ok |-> FALSE, val |-> None, panic |-> FALSE, err |-> e]
Panic(e) == [ok |-> FALSE, val |-> None, panic |-> TRUE, err |-> e]

\* ------------------------------------------------------------------ ssh.rs
\* ConnectOptions::new(url, config)
ConnectOptions_new(url, config) ==
    IF url.host = None
    THEN Err(Error("a hostname must be specified in the URL for SSH connections", "", 0))
    ELSE IF url.username = ""
    THEN Err(Error("a username must be specified in the URL for SSH connections", "", 0))
    ELSE Ok([host        |-> url.host[1],
             port        |-> IF url.port = None THEN DefaultSshPort ELSE url.port[1],
             username    |-> url.username,
             private_key |-> config.private_key,
             host_key    |-> config.host_key])

\* check_server_key with the comparison inverted
check_server_key_NotEqual(host_key, server_public_key) ==
    IF host_key.tag = "Ignore" THEN TRUE ELSE server_public_key # host_key.key

\* check_server_key that returns Ok(true) in both arms
check_server_key_AcceptAll(host_key, server_public_key) == TRUE

\* ClientHandler::check_server_key
check_server_key(host_key, server_public_key) ==
    IF host_key.tag = "Ignore" THEN TRUE ELSE server_public_key = host_key.key

\* ------------------------------------------------------------------ pfsense.rs
ProtocolSsh(ssh_options) == [tag |-> "Ssh", ssh_options |-> Some(ssh_options)]
ProtocolHttp == [tag |-> "Http", ssh_options |-> None]

\* SelectProtocol whose last arm takes every other scheme for HTTP
SelectProtocol_AnyScheme(raw) ==
    LET proto == raw.url.scheme IN
    CASE proto = "ssh" ->
           (IF raw.http_config # None
            THEN Err(Error("key http cannot be set for {proto} connections", proto, 0))
            ELSE IF raw.ssh_config = None
            THEN Err(Error("key ssh is required for {proto} connections", proto, 0))
            ELSE LET o == ConnectOptions_new(raw.url, raw.ssh_config[1]) IN
                 IF o.ok THEN Ok(ProtocolSsh(o.val)) ELSE Panic(o.err))
      [] OTHER ->
           (IF raw.ssh_config # None
            THEN Err(Error("key ssh cannot be set for {proto} connections", proto, 0))
            ELSE Ok(ProtocolHttp))

\* SelectProtocol without the test of http_config in the ssh arm
SelectProtocol_NoHttpCheck(raw) ==
    LET proto == raw.url.scheme IN
    CASE proto \in {"http", "https"} ->
           (IF raw.ssh_config # None
            THEN Err(Error("key ssh cannot be set for {proto} connections", proto, 0))
            ELSE Ok(ProtocolHttp))
      [] proto = "ssh" ->
           (IF raw.ssh_config = None
            THEN Err(Error("key ssh is required for {proto} connections", proto, 0))
            ELSE LET o == ConnectOptions_new(raw.url, raw.ssh_config[1]) IN
                 IF o.ok THEN Ok(ProtocolSsh(o.val)) ELSE Panic(o.err))
      [] OTHER -> Err(Error("unknown protocol '{other}'", proto, 0))

\* SelectProtocol without the test of ssh_config in the http arm
SelectProtocol_NoSshCheck(raw) ==
    LET proto == raw.url.scheme IN
    CASE proto \in {"http", "https"} -> Ok(ProtocolHttp)
      [] proto = "ssh" ->
           (IF raw.http_config # None
            THEN Err(Error("key http cannot be set for {proto} connections", proto, 0))
            ELSE IF raw.ssh_config = None
            THEN Err(Error("key ssh is required for {proto} connections", proto, 0))
            ELSE LET o == ConnectOptions_new(raw.url, raw.ssh_config[1]) IN
                 IF o.ok THEN Ok(ProtocolSsh(o.val)) ELSE Panic(o.err))
      [] OTHER -> Err(Error("unknown protocol '{other}'", proto, 0))

\* the match on raw.url.scheme() of Deserialize for Config<CertificateRef>: the
\* ProtocolConfig, a serde error, or the panic of the unwrap
SelectProtocol(raw) ==
    LET proto == raw.url.scheme IN
    CASE proto \in {"http", "https"} ->
           (IF raw.ssh_config # None
            THEN Err(Error("key ssh cannot be set for {proto} connections", proto, 0))
            ELSE Ok(ProtocolHttp))
      [] proto = "ssh" ->
           (IF raw.http_config # None
            THEN Err(Error("key http cannot be set for {proto} connections", proto, 0))
            ELSE IF raw.ssh_config = None
            THEN Err(Error("key ssh is required for {proto} connections", proto, 0))
            ELSE LET o == ConnectOptions_new(raw.url, raw.ssh_config[1]) IN
                 IF o.ok THEN Ok(ProtocolSsh(o.val)) ELSE Panic(o.err))
      [] OTHER -> Err(Error("unknown protocol '{other}'", proto, 0))

\* Deserialize for Config<CertificateRef>
DeserializeConfig(raw) ==
    LET pc == SelectProtocol(raw) IN
    IF pc.ok
    THEN Ok([certificate |-> raw.certificate, refid |-> raw.refid, protocol |-> pc.val])
    ELSE pc

\* ------------------------------------------------------------------ config.rs
\* try_resolve whose error names the default certificate
try_resolve_DefaultName(self, global_certs) ==
    IF self.tag = "Named"
    THEN IF self.name \in DOMAIN global_certs
         THEN Ok(global_certs[self.name])
         ELSE Err(Error("no such global certificate named \"{name}\"", "default", 0))
    ELSE Ok(self.rc)

\* try_resolve that copies the pool entry into a new Rc
try_resolve_Copy(self, global_certs) ==
    IF self.tag = "Named"
    THEN IF self.name \in DOMAIN global_certs
         THEN Ok(global_certs[self.name] + Len(CertNames))
         ELSE Err(Error("no such global certificate named \"{name}\"", self.name, 0))
    ELSE Ok(self.rc)

\* CertificateRef::try_resolve
try_resolve(self, global_certs) ==
    IF self.tag = "Named"
    THEN IF self.name \in DOMAIN global_certs
         THEN Ok(global_certs[self.name])
         ELSE Err(Error("no such global certificate named \"{name}\"", self.name, 0))
    ELSE Ok(self.rc)

\* try_resolve_certificate that does not carry the refid over
try_resolve_certificate_NoRefid(self, global_certs) ==
    LET r == try_resolve(self.certificate, global_certs) IN
    IF r.ok
    THEN Ok([certificate |-> r.val, refid |-> "", protocol |-> self.protocol])
    ELSE Err(WithContext(r.err, "{e} for key certificate"))

\* Config<CertificateRef>::try_resolve_certificate
try_resolve_certificate(self, global_certs) ==
    LET r == try_resolve(self.certificate, global_certs) IN
    IF r.ok
    THEN Ok([certificate |-> r.val, refid |-> self.refid, protocol |-> self.protocol])
    ELSE Err(WithContext(r.err, "{e} for key certificate"))

\* ------------------------------------------------------------------ credential paths
\* a path is its components, after a root or not; MaxPathLen bounds the paths of a document
MaxPathLen == 2

EnvRef == "$CREDENTIALS_DIRECTORY"

\* the components a configured path is made of; the second begins with the
\* reference as a string and is another component
Components == {EnvRef, "$CREDENTIALS_DIRECTORY.d", "certs", "key.pem"}

Path(has_root, components) == [has_root |-> has_root, components |-> components]
Paths == {Path(r, c) : r \in BOOLEAN, c \in UNION {[1..n -> Components] : n \in 0..MaxPathLen}}

\* the values of the environment variable, and the directories of configuration files
EnvValues == {None, Some(Path(TRUE, <<"run", "credentials">>)), Some(Path(FALSE, <<"creds">>))}
ConfigDirs == {Path(TRUE, <<"etc", "rci">>), Path(FALSE, <<>>)}

\* figment RelativePathBuf: the configured path and the directory of the file it came from
RelativePathBufs == [original : Paths, metadata_dir : ConfigDirs]

\* Path::strip_prefix: whole components are compared
strip_prefix(self, base) ==
    IF /\ self.has_root = base.has_root
       /\ Len(base.components) <= Len(self.components)
       /\ SubSeq(self.components, 1, Len(base.components)) = base.components
    THEN Ok(Path(FALSE, SubSeq(self.components, Len(base.components) + 1, Len(self.components))))
    ELSE Err(Error("prefix not found", "", 0))

\* Path::join: a path with a root replaces self
join(self, path) ==
    IF path.has_root THEN path ELSE Path(self.has_root, self.components \o path.components)

\* RelativePathBuf::relative
relative(value) ==
    IF value.original.has_root THEN value.original ELSE join(value.metadata_dir, value.original)

EnvNotSet == "$CREDENTIALS_DIRECTORY is referenced yet that environment variable isn't set"

\* try_from that falls back to the relative path when the variable is not set
CredentialPathBuf_try_from_Fallback(value, env) ==
    LET sub == strip_prefix(value.original, Path(FALSE, <<EnvRef>>)) IN
    IF sub.ok /\ env # None
    THEN Ok(join(env[1], sub.val))
    ELSE Ok(relative(value))

\* TryFrom<RelativePathBuf> for CredentialPathBuf; env is std::env::var_os("CREDENTIALS_DIRECTORY")
CredentialPathBuf_try_from(value, env) ==
    LET sub == strip_prefix(value.original, Path(FALSE, <<EnvRef>>)) IN
    IF sub.ok
    THEN IF env # None
         THEN Ok(join(env[1], sub.val))
         ELSE Err(Error(EnvNotSet, "", 0))
    ELSE Ok(relative(value))

\* ------------------------------------------------------------------ state
VARIABLES
    pc,            \* where main is: "open", "certs", "next", "raw", "resolve",
                   \* "precheck", "update", "done"
    certificates,  \* config::RawConfig.certificates: the names of the certs table
    de,            \* the pfsense::RawConfig last deserialised (raw), an Option
    pfsense,       \* config::RawConfig.pfsense: target i |-> Config<CertificateRef>
    global_certs,  \* try_from: name |-> Rc<CertificatePair>
    remotes,       \* try_from: qualified name |-> RemoteConfig
    config,        \* main: Option of config.remotes
    order,         \* the iteration order of the HashMap config.remotes
    idx,           \* position of the running for loop of main in order
    step,          \* where ssh::update_certificate is: "idle", "connect", "auth",
                   \* "open", "exec", "data", "eof", "drain"
    server_key,    \* the key the server presented to check_server_key, an Option
    msg,           \* the last value of channel.wait(): Option<ChannelMsg>
    exit_status,   \* ssh::update_certificate: Option<u32>
    seen,          \* the exit statuses the channel delivered to this update
    last_status,   \* the last exit status the channel delivered to this update
    preflight,     \* the verdicts of webpki so far: <<target, verdict>>
    verdicts,      \* what webpki answers for the certificate of each target
    resolutions,   \* how often try_from resolved the reference of each target
    auth_result,   \* ssh_connect: Option of the bool authenticate_publickey returned
    updated,       \* the targets whose update returned Ok(()), in order
    cred,          \* the CredentialPathBuf conversion at hand: input and output
    net,           \* the network operations performed so far, in order
    result         \* what main returned: kind "running", "ok", "err" or "panic"

vars == <<pc, certificates, de, pfsense, global_certs, remotes, config, order, idx,
          step, server_key, msg, exit_status, seen, last_status, preflight, net, result,
          verdicts, resolutions, auth_result, updated, cred>>

loadVars   == <<certificates, de, pfsense, global_certs, remotes, config, order,
                resolutions, verdicts, cred>>
updateVars == <<step, server_key, msg, exit_status, seen, last_status, auth_result>>

EmptyMap == [k \in {} |-> 0]

\* no CredentialPathBuf is being converted
NoCredential == [value |-> None, env |-> None, path |-> None]

Running == [kind |-> "running", err |-> NoError]
Returned(kind, e) == [kind |-> kind, err |-> e]

\* format!("pfsense.{name}")
QualifiedName(name) == <<"pfsense", name>>

\* enum ChannelMsg, as far as the drain loop tells its variants apart
ChannelMsgData == [tag |-> "Data", exit_status |-> 0]
ChannelMsgExitStatus(s) == [tag |-> "ExitStatus", exit_status |-> s]
ChannelMsgOther == [tag |-> "Other", exit_status |-> 0]
ChannelMsgs == {ChannelMsgData, ChannelMsgOther} \cup {ChannelMsgExitStatus(s) : s \in Statuses}

\* the documents of a run: every field varies but the port and the refid, which
\* no step after deserialisation reads, and the pinned key is key 1
DocTargets(i) ==
    {r \in RawConfigs(i) :
        /\ r.url.port = None
        /\ r.refid = "refid-a"
        /\ r.ssh_config # None => r.ssh_config[1].host_key \in {HostKeyIgnore, HostKeyPublicKey(1)}}

Init ==
    /\ pc = "open"
    /\ certificates = {}
    /\ de = None
    /\ pfsense = <<>>
    /\ global_certs = EmptyMap
    /\ remotes = EmptyMap
    /\ config = None
    /\ order = <<>>
    /\ idx = 0
    /\ step = "idle"
    /\ server_key = None
    /\ msg = None
    /\ exit_status = None
    /\ seen = {}
    /\ last_status = None
    /\ preflight = {}
    /\ net = <<>>
    /\ result = Running
    /\ verdicts = EmptyMap
    /\ resolutions = [name \in 1..MaxTargets |-> 0]
    /\ auth_result = None
    /\ updated = <<>>
    /\ cred = NoCredential

\* main returns Err(e) or panics: the process ends
Fail(kind, e) ==
    /\ pc' = "done"
    /\ result' = Returned(kind, e)

\* ------------------------------------------------------------------ load_config
\* load_config up to f.extract(): the path must exist
OpenConfig ==
    /\ pc = "open"
    /\ \E exists \in BOOLEAN :
        IF exists
        THEN pc' = "certs" /\ UNCHANGED result
        ELSE Fail("err", Error("{}: file not found", "", 0))
    /\ UNCHANGED <<loadVars, idx, updateVars, preflight, net, updated>>

\* Deserialize for config::RawConfig, field certs: every pair is loaded from its
\* PEM files (CertificatePair::load_certificate_chain, load_private_key)
DeserializeCerts ==
    /\ pc = "certs"
    /\ \E names \in SUBSET NameSet, loaded \in BOOLEAN :
        IF loaded
        THEN /\ certificates' = names
             /\ pc' = "next"
             /\ UNCHANGED result
        ELSE /\ Fail("err", Error("failed to open \"{}\"", "", 0))
             /\ UNCHANGED certificates
    /\ UNCHANGED <<de, pfsense, global_certs, remotes, config, order, idx, updateVars,
                   preflight, net, verdicts, resolutions, updated, cred>>

\* RawConfig::deserialize(deserializer)? for the next entry of the pfsense table,
\* which follows the certs table in the document; the files the entry names (an
\* inline certificate pair, the SSH private key) are loaded here
ReadRaw ==
    /\ pc = "next"
    /\ Len(pfsense) < MaxTargets
    /\ \E raw \in DocTargets(Len(pfsense) + 1), loaded \in BOOLEAN :
        IF loaded
        THEN /\ de' = Some(raw)
             /\ pc' = "raw"
             /\ UNCHANGED result
        ELSE /\ Fail("err", Error("failed to open \"{}\"", "", 0))
             /\ de' = None
    /\ UNCHANGED <<certificates, pfsense, global_certs, remotes, config, order, idx,
                   updateVars, preflight, net, verdicts, resolutions, updated, cred>>

\* Deserialize for Config<CertificateRef>, after RawConfig::deserialize
DeserializeTarget ==
    /\ pc = "raw"
    /\ LET r == DeserializeConfig(de[1]) IN
        IF r.ok
        THEN /\ pfsense' = Append(pfsense, r.val)
             /\ pc' = "next"
             /\ UNCHANGED result
        ELSE /\ Fail(IF r.panic THEN "panic" ELSE "err", r.err)
             /\ UNCHANGED pfsense
    /\ UNCHANGED <<certificates, de, global_certs, remotes, config, order, idx,
                   updateVars, preflight, net, verdicts, resolutions, updated, cred>>

\* the loop of try_from is entered before the pool is collected
CollectPool_Empty ==
    /\ pc = "next"
    /\ pc' = "resolve"
    /\ de' = None
    /\ global_certs' = EmptyMap
    /\ remotes' = EmptyMap
    /\ UNCHANGED <<certificates, pfsense, config, order, idx, updateVars, preflight, net,
                   result, verdicts, resolutions, updated, cred>>

\* TryFrom<RawConfig> for Config, before its loop: the pool is collected
CollectPool ==
    /\ pc = "next"
    /\ pc' = "resolve"
    /\ de' = None
    /\ global_certs' = [n \in certificates |-> RcPool(n)]
    /\ remotes' = EmptyMap
    /\ UNCHANGED <<certificates, pfsense, config, order, idx, updateVars, preflight, net,
                   result, verdicts, resolutions, updated, cred>>

\* one iteration of the loop of try_from, in the order of the HashMap
ResolveTarget ==
    /\ pc = "resolve"
    /\ \E name \in DOMAIN pfsense :
        /\ QualifiedName(name) \notin DOMAIN remotes
        /\ resolutions' = [resolutions EXCEPT ![name] = @ + 1]
        /\ LET c == try_resolve_certificate(pfsense[name], global_certs) IN
            IF c.ok
            THEN /\ remotes' = [q \in DOMAIN remotes \cup {QualifiedName(name)} |->
                                  IF q = QualifiedName(name)
                                  THEN [variant |-> "PfSense", config |-> c.val]
                                  ELSE remotes[q]]
                 /\ UNCHANGED <<pc, result>>
            ELSE /\ Fail("err", [WithContext(c.err, "{e} in remote config {name}")
                                   EXCEPT !.target = name])
                 /\ UNCHANGED remotes
    /\ UNCHANGED <<certificates, de, pfsense, global_certs, config, order, idx,
                   updateVars, preflight, net, verdicts, updated, cred>>

Permutations_of(S) ==
    {o \in [1..Cardinality(S) -> S] : \A a, b \in 1..Cardinality(S) : o[a] = o[b] => a = b}

\* try_from returns Ok(Config { remotes }), load_config returns it to main
FinishLoad ==
    /\ pc = "resolve"
    /\ \A name \in DOMAIN pfsense : QualifiedName(name) \in DOMAIN remotes
    /\ config' = Some(remotes)
    /\ order' \in Permutations_of(DOMAIN remotes)
    /\ verdicts' \in [DOMAIN remotes -> BOOLEAN]
    /\ certificates' = {}
    /\ pfsense' = <<>>
    /\ global_certs' = EmptyMap
    /\ remotes' = EmptyMap
    /\ pc' = "precheck"
    /\ idx' = 1
    /\ UNCHANGED <<de, updateVars, preflight, net, result, resolutions, updated, cred>>

\* ------------------------------------------------------------------ main, pre-flight
\* the target the running loop of main is at, and its RemoteConfig
Current == order[idx]
CurrentConfig == config[1][Current].config

\* precheck_certificate that drops the verdict
precheck_certificate_Unchecked(verdict) == Ok(None)

\* verify::precheck_certificate: the verdict of webpki on the end-entity certificate
precheck_certificate(verdict) ==
    IF verdict THEN Ok(None) ELSE Err(Error("webpki error", "", 0))

\* an iteration of the pre-flight loop that records the failure and goes on
PrecheckTarget_Continue ==
    /\ pc = "precheck"
    /\ idx <= Len(order)
    /\ LET verdict == verdicts[Current]
           r == precheck_certificate(verdict) IN
        /\ preflight' = preflight \cup {<<Current, verdict>>}
        /\ idx' = idx + 1
        /\ IF r.ok
           THEN UNCHANGED <<pc, result>>
           ELSE result' = Returned("err", r.err) /\ UNCHANGED pc
    /\ UNCHANGED <<loadVars, updateVars, net, updated>>

\* one iteration of the pre-flight loop of main
PrecheckTarget ==
    /\ pc = "precheck"
    /\ idx <= Len(order)
    /\ LET verdict == verdicts[Current]
           r == precheck_certificate(verdict) IN
        /\ preflight' = preflight \cup {<<Current, verdict>>}
        /\ IF r.ok
           THEN idx' = idx + 1 /\ UNCHANGED <<pc, result>>
           ELSE Fail("err", r.err) /\ UNCHANGED idx
    /\ UNCHANGED <<loadVars, updateVars, net, updated>>

\* the protocol of every target is decided again when the updates begin
BeginUpdates_Redecided ==
    /\ pc = "precheck"
    /\ idx > Len(order)
    /\ pc' = "update"
    /\ idx' = 1
    /\ config' = Some([t \in DOMAIN config[1] |->
                         [config[1][t] EXCEPT !.config.protocol = ProtocolHttp]])
    /\ UNCHANGED <<certificates, de, pfsense, global_certs, remotes, order, resolutions,
                   verdicts, cred, updateVars, preflight, net, result, updated>>

\* the pre-flight loop is over: info!("updating certificates")
BeginUpdates ==
    /\ pc = "precheck"
    /\ idx > Len(order)
    /\ pc' = "update"
    /\ idx' = 1
    /\ UNCHANGED <<loadVars, updateVars, preflight, net, result, updated>>

\* ------------------------------------------------------------------ the SSH driver
\* the error of an update is recorded and the loop goes on
UpdateFail_Continue(kind, e) ==
    /\ pc' = pc
    /\ result' = Returned(kind, WithContext(e, "failed to update certificate for \"{name}\""))

\* .context("failed to update certificate for \"{name}\"")? in main: the context
\* is a string literal, the name is not interpolated
UpdateFail(kind, e) ==
    Fail(kind, WithContext(e, "failed to update certificate for \"{name}\""))

NetOp(op) == [target |-> Current, op |-> op]

\* the update of the next target is started while the one before it is running
StartUpdate_Concurrent ==
    /\ pc = "update"
    /\ LET next == IF step = "idle" THEN idx ELSE idx + 1 IN
        /\ next <= Len(order)
        /\ idx' = next
        /\ IF config[1][order[next]].config.protocol.tag = "Http"
           THEN /\ UpdateFail("panic", Error("not yet implemented", "", 0))
                /\ UNCHANGED step
           ELSE \E rendered \in BOOLEAN :
                IF rendered
                THEN step' = "connect" /\ UNCHANGED <<pc, result>>
                ELSE /\ UpdateFail("err", Error("failed to encode full certificate chain as PEM", "", 0))
                     /\ UNCHANGED step
    /\ server_key' = None
    /\ msg' = None
    /\ exit_status' = None
    /\ seen' = {}
    /\ last_status' = None
    /\ auth_result' = None
    /\ UNCHANGED <<loadVars, preflight, net, updated>>

\* an HTTP driver that returns Ok(()) without doing anything
StartUpdate_HttpSkipped ==
    /\ pc = "update"
    /\ step = "idle"
    /\ idx <= Len(order)
    /\ server_key' = None
    /\ msg' = None
    /\ exit_status' = None
    /\ seen' = {}
    /\ last_status' = None
    /\ auth_result' = None
    /\ IF CurrentConfig.protocol.tag = "Http"
       THEN /\ idx' = idx + 1
            /\ updated' = Append(updated, Current)
            /\ UNCHANGED <<pc, result, step>>
       ELSE /\ UNCHANGED <<idx, updated>>
            /\ \E rendered \in BOOLEAN :
                IF rendered
                THEN step' = "connect" /\ UNCHANGED <<pc, result>>
                ELSE /\ UpdateFail("err", Error("failed to encode full certificate chain as PEM", "", 0))
                     /\ UNCHANGED step
    /\ UNCHANGED <<loadVars, preflight, net>>

\* the next iteration of the update loop: main::update_certificate and
\* pfsense::update_certificate choose the driver, the SSH driver renders the script
StartUpdate ==
    /\ pc = "update"
    /\ step = "idle"
    /\ idx <= Len(order)
    /\ server_key' = None
    /\ msg' = None
    /\ exit_status' = None
    /\ seen' = {}
    /\ last_status' = None
    /\ auth_result' = None
    /\ IF CurrentConfig.protocol.tag = "Http"
       THEN /\ UpdateFail("panic", Error("not yet implemented", "", 0))
            /\ UNCHANGED step
       ELSE \E rendered \in BOOLEAN :
            IF rendered
            THEN step' = "connect" /\ UNCHANGED <<pc, result>>
            ELSE /\ UpdateFail("err", Error("failed to encode full certificate chain as PEM", "", 0))
                 /\ UNCHANGED step
    /\ UNCHANGED <<loadVars, idx, preflight, net, updated>>

\* ssh_connect: client::connect.  russh runs the key exchange, hands the server key
\* to check_server_key and fails the connection when the handler refuses the key
SshConnect ==
    /\ pc = "update"
    /\ step = "connect"
    /\ net' = Append(net, NetOp("connect"))
    /\ LET options == CurrentConfig.protocol.ssh_options[1] IN
       \E established \in BOOLEAN, key \in Keys :
        IF ~established
        THEN /\ UpdateFail("err", WithContext(Error("connection failed", "", 0),
                                 "error while establishing SSH connection to {}"))
             /\ UNCHANGED <<step, server_key>>
        ELSE /\ server_key' = Some(key)
             /\ IF check_server_key(options.host_key, key)
                THEN step' = "auth" /\ UNCHANGED <<pc, result>>
                ELSE /\ UpdateFail("err", WithContext(Error("unknown server key", "", 0),
                                         "error while establishing SSH connection to {}"))
                     /\ UNCHANGED step
    /\ UNCHANGED <<loadVars, idx, msg, exit_status, seen, last_status, auth_result,
                   preflight, updated>>

\* auth_outcome without the test of auth_result
auth_outcome_Unchecked(auth) ==
    IF auth = "error"
    THEN Err(WithContext(Error("russh error", "", 0),
                         "error while authenticating SSH connection to {}"))
    ELSE Ok(None)

\* auth_outcome with the context of client::connect on the error of authenticate_publickey
auth_outcome_ConnectContext(auth) ==
    CASE auth = "error" ->
           Err(WithContext(Error("russh error", "", 0),
                           "error while establishing SSH connection to {}"))
      [] auth = "false" ->
           Err(Error("public key authentication unsuccessful for SSH connection to {}", "", 0))
      [] OTHER -> Ok(None)

\* ssh_connect after handle.authenticate_publickey(..).await: with_context(..)? on
\* its error, then if !auth_result { bail!(..) }
auth_outcome(auth) ==
    CASE auth = "error" ->
           Err(WithContext(Error("russh error", "", 0),
                           "error while authenticating SSH connection to {}"))
      [] auth = "false" ->
           Err(Error("public key authentication unsuccessful for SSH connection to {}", "", 0))
      [] OTHER -> Ok(None)

\* ssh_connect: handle.authenticate_publickey and the test of its result
SshAuthenticate ==
    /\ pc = "update"
    /\ step = "auth"
    /\ net' = Append(net, NetOp("authenticate"))
    /\ \E auth \in {"error", "false", "true"} :
        /\ auth_result' = IF auth = "error" THEN None ELSE Some(auth = "true")
        /\ LET r == auth_outcome(auth) IN
            IF r.ok
            THEN step' = "open" /\ UNCHANGED <<pc, result>>
            ELSE UpdateFail("err", r.err) /\ UNCHANGED step
    /\ UNCHANGED <<loadVars, idx, server_key, msg, exit_status, seen, last_status,
                   preflight, updated>>

\* a call on the handle or the channel that is made again after it failed
ChannelCall_Retry(at, op, then) ==
    /\ pc = "update"
    /\ step = at
    /\ net' = Append(net, NetOp(op))
    /\ \E done \in BOOLEAN :
        IF done
        THEN step' = then /\ UNCHANGED <<pc, result>>
        ELSE UNCHANGED <<pc, result, step>>
    /\ UNCHANGED <<loadVars, idx, server_key, msg, exit_status, seen, last_status,
                   auth_result, preflight, updated>>

\* a call on the handle or the channel followed by ?: it succeeds, or its error is returned
ChannelCall(at, op, then) ==
    /\ pc = "update"
    /\ step = at
    /\ net' = Append(net, NetOp(op))
    /\ \E done \in BOOLEAN :
        IF done
        THEN step' = then /\ UNCHANGED <<pc, result>>
        ELSE UpdateFail("err", Error("russh error", "", 0)) /\ UNCHANGED step
    /\ UNCHANGED <<loadVars, idx, server_key, msg, exit_status, seen, last_status,
                   auth_result, preflight, updated>>

\* the script is written to the channel where the exec request belongs
ChannelData_WithoutExec == ChannelCall("exec", "data", "eof")

ChannelOpen == ChannelCall("open", "channel_open_session", "exec")
ChannelExec == ChannelCall("exec", "exec", "data")
ChannelData == ChannelCall("data", "data", "eof")
ChannelEof  == ChannelCall("eof", "eof", "drain")

\* on_message with an arm for Data that resets the status
on_message_DataResets(status, m) ==
    IF m.tag = "ExitStatus" THEN Some(m.exit_status)
    ELSE IF m.tag = "Data" THEN None
    ELSE status

\* the match of the drain loop on a message
on_message(status, m) ==
    IF m.tag = "ExitStatus" THEN Some(m.exit_status) ELSE status

\* update_result with exit_status.unwrap_or(0)
update_result_Default(status) ==
    IF status = None \/ status[1] = 0
    THEN Ok(None)
    ELSE Err(Error("certificate update script exited with status {other}", "", status[1]))

\* after the loop: what ssh::update_certificate returns
update_result(status) ==
    IF status = None
    THEN Err(Error("SSH channel closed without an exit status from the script", "", 0))
    ELSE IF status[1] = 0
    THEN Ok(None)
    ELSE Err(Error("certificate update script exited with status {other}", "", status[1]))

\* a drain loop that is left at the first exit-status message
ChannelWait_BreakOnExitStatus ==
    /\ pc = "update"
    /\ step = "drain"
    /\ \E m \in {None} \cup {Some(c) : c \in ChannelMsgs} :
        /\ msg' = m
        /\ IF m # None /\ m[1].tag # "ExitStatus"
           THEN UNCHANGED <<pc, result, step, idx, updated, exit_status, seen, last_status>>
           ELSE /\ exit_status' = IF m = None THEN exit_status ELSE Some(m[1].exit_status)
                /\ seen' = IF m = None THEN seen ELSE seen \cup {m[1].exit_status}
                /\ last_status' = IF m = None THEN last_status ELSE Some(m[1].exit_status)
                /\ LET r == update_result(exit_status') IN
                   IF r.ok
                   THEN /\ step' = "idle"
                        /\ idx' = idx + 1
                        /\ updated' = Append(updated, Current)
                        /\ UNCHANGED <<pc, result>>
                   ELSE UpdateFail("err", r.err) /\ UNCHANGED <<step, idx, updated>>
    /\ UNCHANGED <<loadVars, server_key, auth_result, preflight, net>>

\* a drain loop with a timeout: the update gives up while the channel is open
ChannelWait_Timeout ==
    /\ pc = "update"
    /\ step = "drain"
    /\ \E m \in {None} \cup {Some(c) : c \in ChannelMsgs}, timeout \in BOOLEAN :
        IF timeout
        THEN /\ UpdateFail("err", Error("timed out", "", 0))
             /\ UNCHANGED <<msg, exit_status, seen, last_status, step, idx, updated>>
        ELSE /\ msg' = m
             /\ IF m # None
                THEN /\ exit_status' = on_message(exit_status, m[1])
                     /\ seen' = IF m[1].tag = "ExitStatus" THEN seen \cup {m[1].exit_status} ELSE seen
                     /\ last_status' = IF m[1].tag = "ExitStatus" THEN Some(m[1].exit_status) ELSE last_status
                     /\ UNCHANGED <<pc, result, step, idx, updated>>
                ELSE /\ UNCHANGED <<exit_status, seen, last_status>>
                     /\ LET r == update_result(exit_status) IN
                        IF r.ok
                        THEN /\ step' = "idle"
                             /\ idx' = idx + 1
                             /\ updated' = Append(updated, Current)
                             /\ UNCHANGED <<pc, result>>
                        ELSE UpdateFail("err", r.err) /\ UNCHANGED <<step, idx, updated>>
    /\ UNCHANGED <<loadVars, server_key, auth_result, preflight, net>>

\* channel.wait() returns: a message, or None and the loop is left and the update
\* returns; main goes on with the next target or returns the error
ChannelWait ==
    /\ pc = "update"
    /\ step = "drain"
    /\ \E m \in {None} \cup {Some(c) : c \in ChannelMsgs} :
        /\ msg' = m
        /\ IF m # None
           THEN /\ exit_status' = on_message(exit_status, m[1])
                /\ seen' = IF m[1].tag = "ExitStatus" THEN seen \cup {m[1].exit_status} ELSE seen
                /\ last_status' = IF m[1].tag = "ExitStatus" THEN Some(m[1].exit_status) ELSE last_status
                /\ UNCHANGED <<pc, result, step, idx, updated>>
           ELSE /\ UNCHANGED <<exit_status, seen, last_status>>
                /\ LET r == update_result(exit_status) IN
                   IF r.ok
                   THEN /\ step' = "idle"
                        /\ idx' = idx + 1
                        /\ updated' = Append(updated, Current)
                        /\ UNCHANGED <<pc, result>>
                   ELSE UpdateFail("err", r.err) /\ UNCHANGED <<step, idx, updated>>
    /\ UNCHANGED <<loadVars, server_key, auth_result, preflight, net>>

\* main returns Ok(()) from inside the update loop, after the first update
Finish_AfterFirst ==
    /\ pc = "update"
    /\ step = "idle"
    /\ idx > 1
    /\ pc' = "done"
    /\ result' = Returned("ok", NoError)
    /\ UNCHANGED <<loadVars, idx, updateVars, preflight, net, updated>>

\* the update loop is over: main returns Ok(())
Finish ==
    /\ pc = "update"
    /\ step = "idle"
    /\ idx > Len(order)
    /\ pc' = "done"
    /\ result' = Returned("ok", NoError)
    /\ UNCHANGED <<loadVars, idx, updateVars, preflight, net, updated>>

Next ==
    \/ OpenConfig
    \/ DeserializeCerts
    \/ ReadRaw
    \/ DeserializeTarget
    \/ CollectPool
    \/ ResolveTarget
    \/ FinishLoad
    \/ PrecheckTarget
    \/ BeginUpdates
    \/ StartUpdate
    \/ SshConnect
    \/ SshAuthenticate
    \/ ChannelOpen
    \/ ChannelExec
    \/ ChannelData
    \/ ChannelEof
    \/ ChannelWait
    \/ Finish

Spec == Init /\ [][Next]_vars

\* ------------------------------------------------------------------ a run that is driven on
\* channel.wait() returns None: the remote closed the channel
ChannelClose == ChannelWait /\ msg' = None

\* the runtime keeps polling main, every pending network call completes, and the
\* remote closes the channel of every update
SpecLive == Init /\ [][Next]_vars /\ WF_vars(Next) /\ WF_vars(ChannelClose)

\* the runtime keeps polling main, and the remote may keep its channel open for ever
SpecOpenChannel == Init /\ [][Next]_vars /\ WF_vars(Next)

\* ------------------------------------------------------------------ CredentialPathBuf alone
\* any configured path, in any environment, is about to be deserialised
InitPath ==
    /\ pc = "certs"
    /\ certificates = {}
    /\ de = None
    /\ pfsense = <<>>
    /\ global_certs = EmptyMap
    /\ remotes = EmptyMap
    /\ config = None
    /\ order = <<>>
    /\ idx = 0
    /\ step = "idle"
    /\ server_key = None
    /\ msg = None
    /\ exit_status = None
    /\ seen = {}
    /\ last_status = None
    /\ preflight = {}
    /\ net = <<>>
    /\ result = Running
    /\ verdicts = EmptyMap
    /\ resolutions = [name \in 1..MaxTargets |-> 0]
    /\ auth_result = None
    /\ updated = <<>>
    /\ \E value \in RelativePathBufs, env \in EnvValues :
        cred = [value |-> Some(value), env |-> env, path |-> None]

\* Deserialize for CredentialPathBuf: serde(try_from = RelativePathBuf)
DeserializeCredentialPath ==
    /\ cred.value # None
    /\ cred.path = None
    /\ cred' = [cred EXCEPT !.path = Some(CredentialPathBuf_try_from(cred.value[1], cred.env))]
    /\ UNCHANGED <<pc, certificates, de, pfsense, global_certs, remotes, config, order, idx,
                   updateVars, preflight, net, result, verdicts, resolutions, updated>>

NextPath == DeserializeCredentialPath

SpecPath == InitPath /\ [][NextPath]_vars

\* ------------------------------------------------------------------ properties
\* the update of the target before Current returned Ok(()); its locals are still there
UpdateReturnedOk ==
    /\ pc \in {"update", "done"}
    /\ step = "idle"
    /\ idx > 1
    /\ result.kind \in {"running", "ok"}

\* the channel closed and the update returned an error
UpdateFailedAtClose == pc = "done" /\ step = "drain"

UpdateReturned == UpdateReturnedOk \/ UpdateFailedAtClose

ExitedWith(s) ==
    /\ UpdateFailedAtClose
    /\ result.kind = "err"
    /\ result.err.msg = "certificate update script exited with status {other}"
    /\ result.err.code = s

ClosedWithoutStatus ==
    /\ UpdateFailedAtClose
    /\ result.kind = "err"
    /\ result.err.msg = "SSH channel closed without an exit status from the script"

\* C1 as stated: once the channel has closed, an exit status of 0 among the messages
\* means success, a non-zero exit status among them means the error carrying it, no
\* exit status means the closed-without-exit-status error, and success needs a 0.
C1_AnyExitStatusDecides ==
    UpdateReturned =>
        /\ 0 \in seen => UpdateReturnedOk
        /\ \A s \in seen \ {0} : ExitedWith(s)
        /\ seen = {} => ClosedWithoutStatus
        /\ UpdateReturnedOk => 0 \in seen

\* C1, amended: once the channel has closed, the last exit status delivered decides:
\* 0 is success, a non-zero status is the error carrying that status, none at all is
\* the closed-without-exit-status error; the update never returns success without an
\* exit status of 0 having been delivered.
C1_LastExitStatusDecides ==
    UpdateReturned =>
        /\ last_status = Some(0) => UpdateReturnedOk
        /\ \A s \in Statuses \ {0} : last_status = Some(s) => ExitedWith(s)
        /\ last_status = None => ClosedWithoutStatus
        /\ UpdateReturnedOk => 0 \in seen

\* a success although a non-zero exit status was delivered too
C1_Witness == UpdateReturnedOk /\ 1 \in seen /\ last_status = Some(0)

\* main returned an error or panicked
RunFailed == result.kind \in {"err", "panic"}

\* the targets the loops of main have reached
Reached == {order[k] : k \in 1..(IF idx <= Len(order) THEN idx ELSE Len(order))}

\* C2: once the run has failed no network operation is performed any more, and no
\* network operation was ever performed for a target that comes after the failing
\* one in the iteration order.
C2_AbortOnFirstFailure ==
    /\ [](RunFailed => pc = "done" /\ \A k \in 1..Len(net) : net[k].target \in Reached)
    /\ [][RunFailed => net' = net /\ idx' = idx]_vars

\* the update of a target failed and a later target is left untouched
C2_Witness ==
    /\ RunFailed
    /\ net # <<>>
    /\ idx < Len(order)

\* the targets of the loaded configuration
Targets == IF config = None THEN {} ELSE DOMAIN config[1]

\* C3: a network operation is performed only after the pre-flight verification has
\* passed for every target of the configuration; when the verification of a target
\* fails the run ends with an error and no network operation performed.
C3_PreflightBeforeNetwork ==
    /\ net # <<>> =>
        /\ config # None
        /\ \A t \in Targets : <<t, TRUE>> \in preflight
    /\ (\E t \in Targets : <<t, FALSE>> \in preflight) =>
        /\ net = <<>>
        /\ pc = "done"
        /\ result.kind = "err"

\* every target verified and the first connection made
C3_Witness ==
    /\ net # <<>>
    /\ Cardinality(preflight) > 1

\* de has gone through Deserialize for Config<CertificateRef>
ParsedRaw == de # None /\ pc # "raw"

\* the target of de was accepted: its Config is the last entry of pfsense
Accepted == ParsedRaw /\ pc = "next"

\* deserialisation ended with the serde error msg
RejectedWith(m) ==
    /\ pc = "done"
    /\ result.kind = "err"
    /\ result.err.msg = m
    /\ config = None

KnownSchemes == {"http", "https", "ssh"}

\* an unrecognised scheme, a conflicting or a missing protocol sub-block
MalformedProtocol(raw) ==
    \/ raw.url.scheme \notin KnownSchemes
    \/ raw.url.scheme \in {"http", "https"} /\ raw.ssh_config # None
    \/ raw.url.scheme = "ssh" /\ (raw.http_config # None \/ raw.ssh_config = None)

\* target i names a certificate the certs table does not hold
DanglingName(i) ==
    /\ pfsense[i].certificate.tag = "Named"
    /\ pfsense[i].certificate.name \notin certificates

\* C4: a malformed target makes the load fail before any network operation: a target
\* with a malformed protocol block ends deserialisation with an error, a target that
\* names a certificate outside the pool is never resolved, and in both cases, as
\* long as no configuration has been loaded, no network operation is performed.
C4_MalformedTargetFailsLoad ==
    /\ ParsedRaw /\ MalformedProtocol(de[1]) =>
        pc = "done" /\ result.kind = "err" /\ config = None /\ net = <<>>
    /\ \A i \in DOMAIN pfsense : DanglingName(i) =>
        QualifiedName(i) \notin DOMAIN remotes /\ config = None /\ net = <<>>
    /\ config = None => net = <<>> /\ result.kind # "ok"

\* a malformed target after a well-formed one: the load has failed
C4_Witness ==
    /\ ParsedRaw
    /\ MalformedProtocol(de[1])
    /\ Len(pfsense) > 0
    /\ pc = "done"

NoSuchCertificate == "no such global certificate named \"{name}\""

\* C5: a target whose Named reference is not in the pool is never resolved, and the
\* error of its resolution is the no-such-certificate error naming exactly that name.
C5_UnknownNameFails ==
    \A i \in DOMAIN pfsense : DanglingName(i) =>
        /\ QualifiedName(i) \notin DOMAIN remotes
        /\ pc = "done" /\ result.err.target = i =>
            /\ result.kind = "err"
            /\ result.err.msg = NoSuchCertificate
            /\ result.err.name = pfsense[i].certificate.name

\* the resolution of a target failed on a name the pool does not hold
C5_Witness ==
    /\ pc = "done"
    /\ result.err.target \in DOMAIN pfsense
    /\ DanglingName(result.err.target)
    /\ result.err.msg = NoSuchCertificate

Range(f) == {f[x] : x \in DOMAIN f}
Resolved == {i \in DOMAIN pfsense : QualifiedName(i) \in DOMAIN remotes}
ResolvedCertificate(i) == remotes[QualifiedName(i)].config.certificate

\* C6: every resolved Named(name) holds the Rc of the pool entry of that name, every
\* resolved inline reference holds its own Rc, the pool holds one Rc per name, and
\* the certificate pairs in existence are the pool entries and the inline pairs.
C6_ResolutionShares ==
    pc = "resolve" =>
        /\ \A i \in Resolved :
            IF pfsense[i].certificate.tag = "Named"
            THEN ResolvedCertificate(i) = global_certs[pfsense[i].certificate.name]
            ELSE ResolvedCertificate(i) = pfsense[i].certificate.rc
        /\ Cardinality(Range(global_certs)) = Cardinality(certificates)
        /\ Range(global_certs) \cup {ResolvedCertificate(i) : i \in Resolved}
             = Range(global_certs)
                 \cup {pfsense[i].certificate.rc :
                         i \in {j \in Resolved : pfsense[j].certificate.tag = "Certificate"}}

\* two targets resolved against the same name, beside an inline pair or another name
C6_Witness ==
    /\ pc = "resolve"
    /\ \E i, j \in Resolved :
        /\ i # j
        /\ pfsense[i].certificate.tag = "Named"
        /\ pfsense[i].certificate = pfsense[j].certificate
        /\ ResolvedCertificate(i) = ResolvedCertificate(j)

UnknownProtocol == "unknown protocol '{other}'"

\* C7: an accepted target has the HTTP protocol when its scheme is http or https and
\* the SSH protocol when its scheme is ssh; every other scheme, and no known scheme,
\* ends deserialisation with the unknown-protocol error naming the scheme.
C7_ProtocolFromScheme ==
    ParsedRaw =>
        LET scheme == de[1].url.scheme IN
        /\ Accepted /\ scheme \in {"http", "https"} =>
            pfsense[Len(pfsense)].protocol.tag = "Http"
        /\ Accepted /\ scheme = "ssh" =>
            pfsense[Len(pfsense)].protocol.tag = "Ssh"
        /\ scheme \notin KnownSchemes =>
            RejectedWith(UnknownProtocol) /\ result.err.name = scheme
        /\ scheme \in KnownSchemes => ~RejectedWith(UnknownProtocol)

\* a target with scheme ftp was rejected
C7_Witness ==
    /\ ParsedRaw
    /\ de[1].url.scheme = "ftp"
    /\ RejectedWith(UnknownProtocol)

SshCannotBeSet == "key ssh cannot be set for {proto} connections"
HttpCannotBeSet == "key http cannot be set for {proto} connections"
SshRequired == "key ssh is required for {proto} connections"

\* C8 as stated: http/https with an ssh block: ssh cannot be set; ssh without an ssh
\* block: ssh is required; ssh with both blocks: the conflicting key is named; a target
\* is accepted only when none of these hold.
C8_EverySshTargetWithoutBlockRequiresSsh ==
    ParsedRaw =>
        LET raw == de[1] IN
        /\ raw.url.scheme \in {"http", "https"} /\ raw.ssh_config # None =>
            RejectedWith(SshCannotBeSet)
        /\ raw.url.scheme = "ssh" /\ raw.ssh_config = None =>
            RejectedWith(SshRequired)
        /\ raw.url.scheme = "ssh" /\ raw.ssh_config # None /\ raw.http_config # None =>
            RejectedWith(HttpCannotBeSet)
        /\ Accepted => ~MalformedProtocol(raw)

\* C8, amended: http/https with an ssh block: ssh cannot be set; ssh with an http
\* block, with or without an ssh block: http cannot be set; ssh with neither block:
\* ssh is required; each error names the scheme; a target is accepted only when none
\* of these hold.
C8_SubBlockValidation ==
    ParsedRaw =>
        LET raw == de[1] IN
        /\ raw.url.scheme \in {"http", "https"} /\ raw.ssh_config # None =>
            RejectedWith(SshCannotBeSet) /\ result.err.name = raw.url.scheme
        /\ raw.url.scheme = "ssh" /\ raw.http_config # None =>
            RejectedWith(HttpCannotBeSet) /\ result.err.name = raw.url.scheme
        /\ raw.url.scheme = "ssh" /\ raw.http_config = None /\ raw.ssh_config = None =>
            RejectedWith(SshRequired) /\ result.err.name = raw.url.scheme
        /\ Accepted => ~MalformedProtocol(raw)

\* an ssh target with an http block and no ssh block was rejected for the http block
C8_Witness ==
    /\ ParsedRaw
    /\ de[1].url.scheme = "ssh"
    /\ de[1].ssh_config = None
    /\ de[1].http_config # None
    /\ RejectedWith(HttpCannotBeSet)

\* the target whose update presented server_key, and its host-key policy
HandshakeTarget == IF step = "idle" THEN order[idx - 1] ELSE order[idx]
Policy(t) == config[1][t].config.protocol.ssh_options[1].host_key

\* the handshake went through: ssh_connect went on to authenticate
KeyAccepted == step # "connect"

\* C9: a presented server key is accepted under Ignore, and under a pinned key exactly
\* when it equals the pinned key.
C9_HostKeyCheck ==
    server_key # None =>
        LET hk == Policy(HandshakeTarget) IN
        /\ hk.tag = "Ignore" => KeyAccepted
        /\ hk.tag = "PublicKey" => (KeyAccepted <=> server_key[1] = hk.key)

\* the pinned key was presented and accepted
C9_Witness ==
    /\ server_key # None
    /\ step = "auth"
    /\ Policy(HandshakeTarget).tag = "PublicKey"
    /\ Policy(HandshakeTarget).key = server_key[1]

\* the server presented a key other than the pinned one
PinnedMismatch ==
    /\ server_key # None
    /\ Policy(HandshakeTarget).tag = "PublicKey"
    /\ Policy(HandshakeTarget).key # server_key[1]

\* C10: when the server presents a key other than the pinned one, the update ends
\* with an error in ssh_connect's connect call: the only network operation of the
\* target is that connect (no authentication, no channel, no script).
C10_MismatchAbortsBeforeAuth ==
    PinnedMismatch =>
        /\ pc = "done"
        /\ result.kind = "err"
        /\ step = "connect"
        /\ \A k \in 1..Len(net) : net[k].target = Current => net[k].op = "connect"
        /\ net[Len(net)] = NetOp("connect")

\* a mismatch on the second target, after the first was updated
C10_Witness ==
    /\ PinnedMismatch
    /\ idx > 1

\* ------------------------------------------------------------------ C11
\* the operations of a session after authentication, and those performed for target t
ChannelOps == {"channel_open_session", "exec", "data", "eof"}
OpsOf(t) == {net[k].op : k \in {j \in 1..Len(net) : net[j].target = t}}

AuthUnsuccessful == "public key authentication unsuccessful for SSH connection to {}"

\* C11: when authenticate_publickey returned without an error and reported false,
\* ssh_connect returned the authentication-failure error and the run ended with it:
\* no session channel was opened on that connection, no script was sent, and the
\* update of that target is not among those that returned Ok
C11_UnsuccessfulAuthFails ==
    auth_result = Some(FALSE) =>
        /\ pc = "done"
        /\ result.kind = "err"
        /\ result.err.msg = AuthUnsuccessful
        /\ step = "auth"
        /\ OpsOf(Current) \cap ChannelOps = {}
        /\ Current \notin Range(updated)

\* the second target is refused after the first one was updated
C11_Witness == auth_result = Some(FALSE) /\ Len(updated) = 1 /\ pc = "done"

\* ------------------------------------------------------------------ C12
Count(s, x) == Cardinality({k \in DOMAIN s : s[k] = x})

LoadSucceeded == config # None
PreflightPassed == \A t \in Targets : <<t, TRUE>> \in preflight
EveryUpdateSucceeded == \A t \in Targets : t \in Range(updated)

\* C12: a run that has ended reports success exactly when load_config returned a
\* configuration, webpki accepted the certificate of every target, and the update
\* of every target returned Ok; and a run that reports success has ended and has
\* performed exactly one successful update for each configured target
C12_SuccessIffEveryStageSucceeded ==
    /\ pc = "done" =>
        (result.kind = "ok" <=> LoadSucceeded /\ PreflightPassed /\ EveryUpdateSucceeded)
    /\ result.kind = "ok" =>
        /\ pc = "done"
        /\ \A t \in Targets : Count(updated, t) = 1
        /\ Len(updated) = Cardinality(Targets)

\* a run over two targets reported success
C12_Witness == result.kind = "ok" /\ Cardinality(Targets) >= 2 /\ Len(updated) >= 2

\* ------------------------------------------------------------------ C13
\* the run ended with the failure of the update of target Current
UpdateFailed == pc = "done" /\ RunFailed /\ LoadSucceeded /\ PreflightPassed

\* C13: when the update of a target fails, the error the run reports identifies
\* the qualified name pfsense.<name> of that target, the first one that failed
C13_ErrorNamesFailingTarget ==
    UpdateFailed => result.err.target = Current[2]

\* ------------------------------------------------------------------ C14
\* webpki refused the certificate of a target
PreflightFailed == \E t \in Targets : <<t, FALSE>> \in preflight

\* C14 as stated: when pre-flight verification fails, the run is aborted with no
\* deployment attempted and the failure of every target whose certificate webpki
\* refuses has been found and reported, not only the first
C14_AllPreflightFailuresReported ==
    PreflightFailed =>
        /\ pc = "done"
        /\ net = <<>>
        /\ \A t \in Targets : ~verdicts[t] => <<t, FALSE>> \in preflight

\* C14: when pre-flight verification fails, the run is aborted at once with the
\* error of webpki and no deployment attempted: the failure is that of the first
\* target in iteration order whose certificate webpki refuses, and the targets
\* after it are not verified
C14_FirstPreflightFailureAborts ==
    PreflightFailed =>
        /\ pc = "done"
        /\ result.kind = "err"
        /\ result.err.msg = "webpki error"
        /\ net = <<>>
        /\ updated = <<>>
        /\ ~verdicts[order[idx]]
        /\ \A k \in 1..(idx - 1) : verdicts[order[k]]
        /\ preflight = {<<order[k], verdicts[order[k]]>> : k \in 1..idx}

\* two certificates would be refused, the run ended at the first
C14_Witness ==
    /\ PreflightFailed
    /\ Cardinality(Targets) = 2
    /\ \A t \in Targets : ~verdicts[t]
    /\ pc = "done"

\* ------------------------------------------------------------------ C15
\* the conversion at hand has returned
Converted == cred.value # None /\ cred.path # None
Original == cred.value[1].original
ResolvedPath == cred.path[1]

\* the path string begins with the characters of the reference
BeginsWithEnvRef(path) ==
    /\ ~path.has_root
    /\ Len(path.components) >= 1
    /\ path.components[1] \in {EnvRef, "$CREDENTIALS_DIRECTORY.d"}

\* the first component of the path is the reference
FirstIsEnvRef(path) ==
    /\ ~path.has_root
    /\ Len(path.components) >= 1
    /\ path.components[1] = EnvRef

IsPrefix(s, t) == Len(s) <= Len(t) /\ SubSeq(t, 1, Len(s)) = s

\* the result of the conversion lies under the value of the environment variable
UnderEnvValue ==
    /\ ResolvedPath.ok
    /\ IsPrefix(cred.env[1].components, ResolvedPath.val.components)
    /\ ResolvedPath.val.has_root = cred.env[1].has_root

\* the path resolved against the directory of the configuration file
RelativeToConfigFile ==
    IF Original.has_root
    THEN Original
    ELSE Path(cred.value[1].metadata_dir.has_root,
              cred.value[1].metadata_dir.components \o Original.components)

\* C15 as stated: a path string that begins with $CREDENTIALS_DIRECTORY resolves
\* to a path under the value of the environment variable when it is set and to the
\* error naming the variable when it is not; any other path resolves relative to
\* the directory of the configuration file
C15_StringPrefixIsReplaced ==
    Converted =>
        IF BeginsWithEnvRef(Original)
        THEN IF cred.env # None
             THEN UnderEnvValue
             ELSE ~ResolvedPath.ok /\ ResolvedPath.err.msg = EnvNotSet
        ELSE ResolvedPath = Ok(RelativeToConfigFile)

\* C15: a path whose first component is exactly $CREDENTIALS_DIRECTORY resolves to
\* the components after it joined onto the value of the environment variable when
\* it is set, and to the error naming the variable when it is not; any other path,
\* one whose first component only begins with the reference included, resolves
\* relative to the directory of the configuration file whatever the environment
C15_FirstComponentIsReplaced ==
    Converted =>
        IF FirstIsEnvRef(Original)
        THEN IF cred.env # None
             THEN /\ ResolvedPath.ok
                  /\ ResolvedPath.val.has_root = cred.env[1].has_root
                  /\ ResolvedPath.val.components =
                        cred.env[1].components \o Tail(Original.components)
             ELSE ~ResolvedPath.ok /\ ResolvedPath.err.msg = EnvNotSet
        ELSE ResolvedPath = Ok(RelativeToConfigFile)

\* $CREDENTIALS_DIRECTORY/key.pem was resolved with the variable set
C15_Witness ==
    /\ Converted
    /\ Original = Path(FALSE, <<EnvRef, "key.pem">>)
    /\ cred.env # None
    /\ ResolvedPath.ok

\* ------------------------------------------------------------------ C16
Names == 1..MaxTargets

\* C16: the reference of a target is resolved at most once, and only with the pool
\* holding every entry of the certs table; once load_config has returned, and so
\* throughout pre-flight and update, the reference of every target has been
\* resolved exactly once and nothing else has; no network operation is performed
\* before load_config has returned
C16_ResolvedOnceBeforeNetwork ==
    /\ \A name \in Names : resolutions[name] <= 1
    /\ (\E name \in Names : resolutions[name] > 0) =>
        /\ pc \in {"resolve", "precheck", "update", "done"}
        /\ DOMAIN global_certs = certificates
    /\ LoadSucceeded =>
        \A name \in Names :
            resolutions[name] = IF QualifiedName(name) \in Targets THEN 1 ELSE 0
    /\ pc \in {"precheck", "update"} => LoadSucceeded
    /\ net # <<>> => LoadSucceeded

\* two targets were resolved, one of them from the pool, and the network was used
C16_Witness ==
    /\ net # <<>>
    /\ Cardinality(Targets) = 2
    /\ \A name \in 1..2 : resolutions[name] = 1
    /\ \E t \in Targets : config[1][t].config.certificate = RcPool("default")

\* ------------------------------------------------------------------ C17
\* a network operation was performed for target t
Connected(t) == \E k \in DOMAIN net : net[k].target = t

\* the targets with a connection whose update has not returned Ok
InProgress == {t \in Targets : Connected(t) /\ t \notin Range(updated)}

\* C17: at most one target has an update in progress; the targets updated so far
\* are the first ones of the iteration order, in that order, and while the update
\* of a target runs, and whenever a network operation was performed for it, the
\* update of every target before it has returned Ok; every target is connected to
\* at most once and an operation for another target than the one before is the
\* connect of that target, so that the operations of a session are not interleaved
\* with those of another target
C17_OneTargetAtATime ==
    /\ Cardinality(InProgress) <= 1
    /\ Len(updated) <= Len(order)
    /\ \A k \in DOMAIN updated : updated[k] = order[k]
    /\ step # "idle" => Len(updated) = idx - 1
    /\ \A k \in DOMAIN order :
        Connected(order[k]) => \A j \in 1..(k - 1) : order[j] \in Range(updated)
    /\ \A t \in Targets :
        Cardinality({k \in DOMAIN net : net[k].target = t /\ net[k].op = "connect"}) <= 1
    /\ \A k \in 2..Len(net) :
        net[k].target # net[k - 1].target => net[k].op = "connect"

\* the second target is being updated after the update of the first returned Ok
C17_Witness ==
    /\ Len(updated) = 1
    /\ pc = "update"
    /\ step = "drain"
    /\ Connected(order[1]) /\ Connected(order[2])

\* ------------------------------------------------------------------ C18
\* the drain loop is running or was left
Draining == pc \in {"update", "done"} /\ step = "drain"

\* C18: while the channel is drained the recorded exit status is the one of the
\* last exit-status message delivered, whatever data messages and other messages
\* came before, between and after the exit-status messages, and what the update
\* returns is what that last exit status alone gives
C18_DataMessagesIgnored ==
    /\ Draining => exit_status = last_status
    /\ UpdateReturnedOk => update_result(last_status).ok
    /\ UpdateFailedAtClose =>
        /\ ~update_result(last_status).ok
        /\ result.err.msg = update_result(last_status).err.msg
        /\ result.err.code = update_result(last_status).err.code

\* a data message and another message were received after an exit status
C18_Witness ==
    /\ Draining
    /\ msg \in {Some(ChannelMsgData), Some(ChannelMsgOther)}
    /\ exit_status = Some(1)
    /\ pc = "update"

\* ------------------------------------------------------------------ C19
EstablishingContext == "error while establishing SSH connection to {}"
AuthenticatingContext == "error while authenticating SSH connection to {}"

\* the failure that ended the update of Current
ConnectionFailed == UpdateFailed /\ step = "connect" /\ server_key = None
AuthenticationFailed == UpdateFailed /\ step = "auth"
ScriptFailed == UpdateFailed /\ step = "drain"

\* what the words of the reported error say
ReportedAsTransport == EstablishingContext \in Range(result.err.ctx)
ReportedAsAuthentication ==
    \/ AuthenticatingContext \in Range(result.err.ctx)
    \/ result.err.msg = AuthUnsuccessful
ReportedAsRemoteScript ==
    result.err.msg \in {"certificate update script exited with status {other}",
                        "SSH channel closed without an exit status from the script"}

SshWithBlock(raw) ==
    raw.url.scheme = "ssh" /\ raw.ssh_config # None /\ raw.http_config = None
Unaddressable(raw) == raw.url.username = "" \/ raw.url.host = None

\* C20: an ssh target whose URL has an empty username or no host is rejected when
\* the configuration is loaded, with an error returned by load_config as the other
\* configuration errors are and before any network operation; for a URL with host
\* and username the connect options of the target hold the host and the username
\* of the URL and its port, or 22 when it has none
C20_UnaddressableTargetIsRejected ==
    (ParsedRaw /\ SshWithBlock(de[1])) =>
        IF Unaddressable(de[1])
        THEN /\ pc = "done"
             /\ result.kind = "err"
             /\ net = <<>>
        ELSE /\ Accepted
             /\ LET options == pfsense[Len(pfsense)].protocol.ssh_options[1] IN
                 /\ options.host = de[1].url.host[1]
                 /\ options.username = de[1].url.username
                 /\ options.port = IF de[1].url.port = None THEN DefaultSshPort
                                   ELSE de[1].url.port[1]

\* ------------------------------------------------------------------ C21
\* the operations the claim speaks of, and the step of the update each is made at
AttemptedOps == {"connect", "authenticate", "channel_open_session", "exec", "data"}
StepOf(op) ==
    CASE op = "connect" -> "connect"
      [] op = "authenticate" -> "auth"
      [] op = "channel_open_session" -> "open"
      [] op = "exec" -> "exec"
      [] op = "data" -> "data"
      [] op = "eof" -> "eof"

\* the operation made at position k of net is made again later
MadeAgain(k) == \E j \in (k + 1)..Len(net) : net[j] = net[k]

\* the operation op of the update of Current was made and did not succeed
OpFailed(op) ==
    /\ step = StepOf(op)
    /\ net # <<>>
    /\ net[Len(net)] = NetOp(op)

\* C21: in every run each of connect, authenticate, channel open, exec and script
\* send is made at most once for every target, and when one of them fails the run
\* has ended with an error: nothing is tried again
C21_NoRetries ==
    /\ \A k \in DOMAIN net : net[k].op \in AttemptedOps => ~MadeAgain(k)
    /\ \A op \in AttemptedOps :
        OpFailed(op) =>
            /\ pc = "done"
            /\ result.kind = "err"

\* the exec request for the second target failed after the first target was updated
C21_Witness ==
    /\ OpFailed("exec")
    /\ Len(updated) = 1
    /\ pc = "done"

\* ------------------------------------------------------------------ C22
\* the operations of one SSH update in the order of the source, the drain loop after them
UpdateOrder == <<"connect", "authenticate", "channel_open_session", "exec", "data", "eof">>
UpdateSteps == <<"connect", "auth", "open", "exec", "data", "eof", "drain">>
StepIndex(s) == CHOOSE k \in DOMAIN UpdateSteps : UpdateSteps[k] = s

\* the operation that follows op in an update
NextOp(op) == UpdateOrder[(CHOOSE k \in DOMAIN UpdateOrder : UpdateOrder[k] = op) + 1]

\* the last network operation of the run was made for Current and is op
LastOpIs(op) == net # <<>> /\ net[Len(net)] = NetOp(op)

\* C22: every operation is the connect that begins the session of a target or
\* the step that follows, in the order connect, authenticate, open session
\* channel, exec, script, end-of-input, the operation made before it in the same
\* session; the update is at a step only when the operation before that step was
\* the last one made, the drain loop runs only after end-of-input, and a run
\* that ended in an update ended at the operation that failed or, in the drain
\* loop, after end-of-input
C22_FixedStepOrder ==
    /\ \A k \in DOMAIN net :
        IF k = 1 \/ net[k - 1].target # net[k].target
        THEN net[k].op = "connect"
        ELSE net[k - 1].op # "eof" /\ net[k].op = NextOp(net[k - 1].op)
    /\ step # "idle" =>
        IF pc = "done"
        THEN RunFailed /\ LastOpIs(IF step = "drain" THEN "eof" ELSE UpdateOrder[StepIndex(step)])
        ELSE IF step = "connect"
        THEN net = <<>> \/ net[Len(net)].target # Current
        ELSE LastOpIs(UpdateOrder[StepIndex(step) - 1])
    /\ \A t \in Range(updated) : \E k \in DOMAIN net : net[k] = [target |-> t, op |-> "eof"]

\* the script was not accepted by the channel: no end-of-input, no draining
C22_Witness ==
    /\ step = "data"
    /\ pc = "done"
    /\ LastOpIs("data")
    /\ Len(net) = 5

\* ------------------------------------------------------------------ C23
\* C23: the update returns only when channel.wait() has returned None: a message,
\* an exit status included, leaves the update in its drain loop and the run
\* running; when several exit statuses were delivered before the channel closed
\* the last one decides, so that status 1 followed by status 0 is a success and
\* status 0 followed by status 1 is an error carrying 1
C23_DrainsUntilClosed ==
    /\ UpdateReturned => msg = None
    /\ (Draining /\ msg # None) => pc = "update" /\ result = Running
    /\ (UpdateReturned /\ seen = {0, 1}) =>
        IF last_status = Some(0)
        THEN UpdateReturnedOk
        ELSE UpdateFailedAtClose /\ result.err.code = 1

\* the run succeeded although the script of its last target reported 1 before 0
C23_Witness ==
    /\ pc = "done"
    /\ result.kind = "ok"
    /\ seen = {0, 1}
    /\ last_status = Some(0)
    /\ msg = None

\* ------------------------------------------------------------------ C24
\* the run has returned
Terminated == pc = "done"

\* C24: the update leaves its drain loop, with success or with an error, only in
\* a step in which channel.wait() returns None, so that an update whose channel
\* the remote never closes never returns; and in a run in which every network
\* call completes and every channel is closed by the remote, main returns
C24_ReturnsOnlyAfterClose ==
    /\ [][(pc = "update" /\ step = "drain" /\ (step' # "drain" \/ pc' # "update")) =>
            msg' = None]_vars
    /\ <>Terminated

\* C24, the run of an open channel: main returns whether or not the remote closes
\* the channel
C24_TerminatesWithOpenChannel == <>Terminated

\* the channel of the second target closed without an exit status and the run ended
C24_Witness ==
    /\ Terminated
    /\ UpdateFailedAtClose
    /\ last_status = None
    /\ msg = None
    /\ Len(updated) = 1

\* ------------------------------------------------------------------ C25
\* the certificate the reference of the parsed target name resolves to in the pool
PoolCertificate(name) ==
    IF pfsense[name].certificate.tag = "Named"
    THEN global_certs[pfsense[name].certificate.name]
    ELSE pfsense[name].certificate.rc

\* C25: in the step in which load_config returns a configuration, its targets are
\* keyed by pfsense.<name> for exactly the names of the parsed pfsense table, one
\* entry each, and the entry of a name carries the certificate its reference
\* resolves to in the pool and the refid and the protocol of the parsed target
C25_OneEntryPerConfiguredTarget ==
    [][(config = None /\ config' # None) =>
        /\ DOMAIN config'[1] = {<<"pfsense", name>> : name \in DOMAIN pfsense}
        /\ Cardinality(DOMAIN config'[1]) = Len(pfsense)
        /\ \A name \in DOMAIN pfsense :
            LET entry == config'[1][<<"pfsense", name>>] IN
            /\ entry.variant = "PfSense"
            /\ entry.config.certificate = PoolCertificate(name)
            /\ entry.config.refid = pfsense[name].refid
            /\ entry.config.protocol = pfsense[name].protocol]_vars

\* a configuration of an http target and an ssh target was loaded, one of them
\* with a certificate of the pool
C25_Witness ==
    /\ LoadSucceeded
    /\ pc = "precheck"
    /\ {config[1][t].config.protocol.tag : t \in Targets} = {"Http", "Ssh"}
    /\ \E t \in Targets : config[1][t].config.certificate = RcPool("alt")
    /\ \A t \in Targets : config[1][t].config.refid = "refid-a"

\* ------------------------------------------------------------------ C26
\* C26: once load_config has returned, no step of the run changes the loaded
\* configuration (the certificate, the refid, the connect options and the protocol
\* of every target), the certificates of the pool it shares, or the iteration
\* order; and the SSH driver has worked only on targets whose protocol, chosen
\* when the target was parsed, is Ssh
C26_LoadedConfigIsFrozen ==
    /\ [](\A t \in Targets : Connected(t) => config[1][t].config.protocol.tag = "Ssh")
    /\ [][config # None =>
            /\ config' = config
            /\ order' = order
            /\ global_certs' = global_certs]_vars

\* the run is over, every target was connected to, and the configuration is there
C26_Witness ==
    /\ pc = "done"
    /\ LoadSucceeded
    /\ Cardinality(Targets) = 2
    /\ \A t \in Targets : Connected(t)

\* ------------------------------------------------------------------ C27
\* the targets of the loaded configuration whose protocol is Http
HttpTargets == {t \in Targets : config[1][t].config.protocol.tag = "Http"}

NotYetImplemented == "not yet implemented"

\* C27: no network operation is ever made for a target whose protocol is Http and
\* its update never returns Ok; a run whose configuration holds such a target
\* never reports success, and when the update loop reaches the target the run
\* ends there with the panic of todo!(), whatever was updated before
C27_HttpTargetCrashesRun ==
    /\ \A t \in HttpTargets : ~Connected(t) /\ t \notin Range(updated)
    /\ HttpTargets # {} => result.kind # "ok"
    /\ (UpdateFailed /\ Current \in HttpTargets) =>
        /\ result.kind = "panic"
        /\ result.err.msg = NotYetImplemented
        /\ step = "idle"
    /\ (pc = "done" /\ LoadSucceeded /\ PreflightPassed /\ HttpTargets # {}) =>
        \/ result.kind = "panic" /\ Current \in HttpTargets
        \/ result.kind = "err" /\ Current \notin HttpTargets

\* an http target passed load and pre-flight, and the run crashed at it after the
\* target before it was updated
C27_Witness ==
    /\ UpdateFailed
    /\ result.kind = "panic"
    /\ Current \in HttpTargets
    /\ <<Current, TRUE>> \in preflight
    /\ Len(updated) = 1

====
